---- MODULE Spec2Model ----
(***************************************************************************)
(* Model of .github/scripts/build_repo_script.py: the ingestion of .deb    *)
(* archives (download_deb_packages), the control-text parser of            *)
(* extract_deb_control, the index writer _emit_packages_file and           *)
(* generate_packages_files.                                                *)
(*                                                                         *)
(* A Python str is a sequence of symbols.  A symbol is a TLA+ string that  *)
(* stands either for one of the characters the code tests for (" ", tab,   *)
(* newline, ":") or for an opaque run of other characters ("Package",     *)
(* "foo").  A Python dict is a sequence of [k, v] entries in insertion     *)
(* order.                                                                  *)
(***************************************************************************)
EXTENDS Integers, Sequences, FiniteSets, TLC

VARIABLES
    \* ---- one run of main() ----
    pc,                   \* position of main(): "download", "emit_all", "emit_arch", "summary", "done", "aborted"
    processed,            \* history: the assets the download loop has handled, in order, with what happened
    packages_by_arch,     \* dict arch -> list of entries (defaultdict(list))
    packages_all,         \* list of entries with Architecture: all
    pool,                 \* files under pages/: dict path -> bytes
    index,                \* emitted Packages files: dict arch token -> [packages, content]
    active_architectures, \* list built by generate_packages_files
    next_arch,            \* position of the loop over packages_by_arch.items()
    storage_failed,       \* history: some write to the pool or to an index has failed
    \* ---- the parser of extract_deb_control, line by line ----
    p_pc,                 \* "idle", "parsing", "returned"
    p_lines,              \* control_content.split('\n')
    p_next,               \* index of the next line of p_lines
    control_info,         \* the dict being built
    current_field,        \* None or the name of the field opened last
    \* ---- serialising one record and reading it back ----
    rt_pc,                \* "idle", "start", "emitted", "parsed"
    rt_description,       \* the Description string of the record
    rt_content,           \* the text _emit_packages_file wrote
    rt_parsed             \* the dict the parser returned for rt_content

run_vars == <<pc, processed, packages_by_arch, packages_all, pool, index,
              active_architectures, next_arch, storage_failed>>
parse_vars == <<p_pc, p_lines, p_next, control_info, current_field>>
rt_vars == <<rt_pc, rt_description, rt_content, rt_parsed>>
vars == <<run_vars, parse_vars, rt_vars>>

---------------------------------------------------------------------------
(* Bounds of the model. *)

MaxAssets == 3        \* assets one run downloads
MaxTextLen == 5       \* symbols of a control text given to the parser alone
MaxDescLen == 4       \* symbols of a Description in the round trip

---------------------------------------------------------------------------
(* Python str *)

SP == " "
TAB == "\t"
NL == "\n"
COLON == ":"

\* str.isspace() of one character
IsSpace(c) == c \in {" ", "\t", "\n", "\r"}

RECURSIVE rstrip(_)
rstrip(s) ==
    IF s = <<>> THEN s
    ELSE IF IsSpace(s[Len(s)]) THEN rstrip(SubSeq(s, 1, Len(s) - 1))
    ELSE s

RECURSIVE lstrip(_)
lstrip(s) ==
    IF s = <<>> THEN s
    ELSE IF IsSpace(s[1]) THEN lstrip(SubSeq(s, 2, Len(s)))
    ELSE s

strip(s) == lstrip(rstrip(s))

\* sep in s
Contains(s, sep) == \E i \in 1..Len(s) : s[i] = sep

\* s.index(sep), 1-based
Find(s, sep) == CHOOSE i \in 1..Len(s) : s[i] = sep /\ \A j \in 1..(i - 1) : s[j] # sep

\* s.split(sep): always at least one piece
RECURSIVE split(_, _)
split(s, sep) ==
    IF ~Contains(s, sep) THEN <<s>>
    ELSE <<SubSeq(s, 1, Find(s, sep) - 1)>> \o split(SubSeq(s, Find(s, sep) + 1, Len(s)), sep)

\* s.split(sep, 1) of a string that contains sep
split1(s, sep) == <<SubSeq(s, 1, Find(s, sep) - 1), SubSeq(s, Find(s, sep) + 1, Len(s))>>

\* sep.join(parts)
RECURSIVE join(_, _)
join(parts, sep) ==
    IF parts = <<>> THEN <<>>
    ELSE IF Len(parts) = 1 THEN parts[1]
    ELSE parts[1] \o sep \o join(Tail(parts), sep)

\* s.startswith(' ') or s.startswith('\t')
StartsWithBlank(s) == s # <<>> /\ s[1] \in {SP, TAB}

---------------------------------------------------------------------------
(* Python dict, in insertion order *)

EmptyDict == <<>>

Has(d, k) == \E i \in 1..Len(d) : d[i].k = k

Get(d, k) == d[CHOOSE i \in 1..Len(d) : d[i].k = k].v

GetOr(d, k, default) == IF Has(d, k) THEN Get(d, k) ELSE default

\* d[k] = v: a new key goes last, an old key keeps its place
Put(d, k, v) ==
    IF Has(d, k)
    THEN [i \in 1..Len(d) |-> IF d[i].k = k THEN [k |-> k, v |-> v] ELSE d[i]]
    ELSE Append(d, [k |-> k, v |-> v])

Keys(d) == [i \in 1..Len(d) |-> d[i].k]

\* Optional[str]
None == <<>>
Some(s) == <<s>>

\* `if x:` of an Optional[str]: None and '' are both false
Truthy(x) == x # None /\ x[1] # <<>>

---------------------------------------------------------------------------
(* The parser of extract_deb_control *)

\* one pass of the body of `for line in control_content.split('\n')`
ParseLine(st, raw) ==
    LET line == rstrip(raw) IN
    IF line = <<>> THEN st
    ELSE IF StartsWithBlank(line)
    THEN IF Truthy(st.current_field)
         THEN [st EXCEPT !.control_info =
                  Put(@, st.current_field[1], Get(@, st.current_field[1]) \o <<NL>> \o line)]
         ELSE st
    ELSE IF Contains(line, COLON)
    THEN LET field == strip(split1(line, COLON)[1])
             value == strip(split1(line, COLON)[2])
         IN  [control_info |-> Put(st.control_info, field, value),
              current_field |-> Some(field)]
    ELSE st

RECURSIVE ParseLines(_, _)
ParseLines(st, lines) ==
    IF lines = <<>> THEN st ELSE ParseLines(ParseLine(st, lines[1]), Tail(lines))

\* control text -> control_info
ParseControl(control_content) ==
    ParseLines([control_info |-> EmptyDict, current_field |-> None],
               split(control_content, NL)).control_info

---------------------------------------------------------------------------
(* Field names and fixed strings of the script *)

Package == <<"Package">>
Version == <<"Version">>
Architecture == <<"Architecture">>
Maintainer == <<"Maintainer">>
Filename == <<"Filename">>
Size == <<"Size">>
SHA256 == <<"SHA256">>
Section == <<"Section">>
Priority == <<"Priority">>
Depends == <<"Depends">>
Recommends == <<"Recommends">>
Suggests == <<"Suggests">>
Conflicts == <<"Conflicts">>
Provides == <<"Provides">>
Replaces == <<"Replaces">>
Description == <<"Description">>

ALL == <<"all">>

\* required_fields of _emit_packages_file
required_fields == <<Package, Version, Architecture, Maintainer, Filename, Size, SHA256>>

\* optional_fields of _emit_packages_file
optional_fields == <<Section, Priority, Depends, Recommends, Suggests, Conflicts,
                     Provides, Replaces, Description>>

\* the optional fields download_deb_packages copies when present
relation_fields == <<Depends, Recommends, Suggests, Conflicts, Provides, Replaces>>

---------------------------------------------------------------------------
(* _emit_packages_file: the text of a Packages file *)

\* f"{field}: {package[field]}"
FieldLine(field, value) == field \o <<COLON, SP>> \o value

\* the lines of a Description: the first after the field name, the others after one space
DescriptionLines(value) ==
    LET desc_lines == split(value, NL) IN
    <<FieldLine(Description, desc_lines[1])>>
        \o [i \in 1..(Len(desc_lines) - 1) |-> <<SP>> \o desc_lines[i + 1]]

RECURSIVE RequiredLines(_, _)
RequiredLines(package, fields) ==
    IF fields = <<>> THEN <<>>
    ELSE (IF Has(package, fields[1])
          THEN <<FieldLine(fields[1], Get(package, fields[1]))>>
          ELSE <<>>)
         \o RequiredLines(package, Tail(fields))

RECURSIVE OptionalLines(_, _)
OptionalLines(package, fields) ==
    IF fields = <<>> THEN <<>>
    ELSE (IF Has(package, fields[1])
          THEN IF fields[1] = Description
               THEN DescriptionLines(Get(package, Description))
               ELSE <<FieldLine(fields[1], Get(package, fields[1]))>>
          ELSE <<>>)
         \o OptionalLines(package, Tail(fields))

\* package_lines if the fields were taken in the order of the dict
RECURSIVE LinesInDictOrder(_, _)
LinesInDictOrder(package, keys) ==
    IF keys = <<>> THEN <<>>
    ELSE (IF Contains(required_fields, keys[1])
          THEN <<FieldLine(keys[1], Get(package, keys[1]))>>
          ELSE IF keys[1] = Description
          THEN DescriptionLines(Get(package, Description))
          ELSE IF Contains(optional_fields, keys[1])
          THEN <<FieldLine(keys[1], Get(package, keys[1]))>>
          ELSE <<>>)
         \o LinesInDictOrder(package, Tail(keys))

PackageLinesInDictOrder(package) == LinesInDictOrder(package, Keys(package))

\* package_lines of one package
PackageLines(package) ==
    RequiredLines(package, required_fields) \o OptionalLines(package, optional_fields)

\* content: what is written to <packages_dir>/Packages
PackagesContent(packages) ==
    join([i \in 1..Len(packages) |-> join(PackageLines(packages[i]), <<NL>>)], <<NL, NL>>)
        \o (IF packages # <<>> THEN <<NL>> ELSE <<>>)

---------------------------------------------------------------------------
(* The archives a release can hold.  An archive is its asset name, its     *)
(* bytes, whether ar/tar can extract its control file, and the text of     *)
(* that file.  The first character of a package name is a symbol of its    *)
(* own, because the script takes pkg_name[0].                              *)

ControlLine(field, value) == field \o <<COLON, SP>> \o value \o <<NL>>

\* Architecture: all, a two-line Description, fields in an order of its own
DebFooAll ==
    [name |-> <<"foo.deb">>, data |-> <<"x">>, extractable |-> TRUE,
     control |-> ControlLine(Description, <<"d">>) \o <<SP, "e", NL>>
                 \o ControlLine(Architecture, ALL)
                 \o ControlLine(Depends, <<"libc">>)
                 \o ControlLine(Version, <<"1">>)
                 \o ControlLine(Package, <<"f", "oo">>)]

\* a concrete architecture
DebBarArm64 ==
    [name |-> <<"bar.deb">>, data |-> <<"y", "z">>, extractable |-> TRUE,
     control |-> ControlLine(Package, <<"b", "ar">>)
                 \o ControlLine(Version, <<"2">>)
                 \o ControlLine(Architecture, <<"arm64">>)
                 \o ControlLine(Maintainer, <<"m">>)]

\* another build of foo under the same asset name, with other bytes
DebFooAmd64 ==
    [name |-> <<"foo.deb">>, data |-> <<"w">>, extractable |-> TRUE,
     control |-> ControlLine(Package, <<"f", "oo">>)
                 \o ControlLine(Version, <<"2">>)
                 \o ControlLine(Architecture, <<"amd64">>)]

\* no Architecture field: the script takes "all"
DebQuxNoArch ==
    [name |-> <<"qux.deb">>, data |-> <<"q">>, extractable |-> TRUE,
     control |-> ControlLine(Package, <<"q", "ux">>)
                 \o ControlLine(Version, <<"3">>)]

\* a control file that holds only an Architecture
DebOnlyArch ==
    [name |-> <<"mips.deb">>, data |-> <<"m">>, extractable |-> TRUE,
     control |-> ControlLine(Architecture, <<"mips">>)]

\* Package without Version
DebNoVersion ==
    [name |-> <<"baz.deb">>, data |-> <<"v">>, extractable |-> TRUE,
     control |-> ControlLine(Package, <<"b", "az">>)
                 \o ControlLine(Architecture, <<"amd64">>)]

\* an empty Package value
DebEmptyName ==
    [name |-> <<"empty.deb">>, data |-> <<"n">>, extractable |-> TRUE,
     control |-> <<"Package", COLON, NL>> \o ControlLine(Version, <<"1">>)]

\* neither control.tar.xz nor control.tar.gz, or no member named control
DebBroken ==
    [name |-> <<"broken.deb">>, data |-> <<"k">>, extractable |-> FALSE,
     control |-> <<>>]

Debs == {DebFooAll, DebBarArm64, DebFooAmd64, DebQuxNoArch, DebOnlyArch,
         DebNoVersion, DebEmptyName, DebBroken}

---------------------------------------------------------------------------
(* download_deb_packages: the body of the loop over the assets *)

\* extract_deb_control: raises ValueError, or returns the parsed control file
extract_deb_control(deb) ==
    IF deb.extractable
    THEN [raised |-> FALSE, control_info |-> ParseControl(deb.control)]
    ELSE [raised |-> TRUE, control_info |-> EmptyDict]

\* hashlib.sha256(data).hexdigest(): one symbol naming the bytes hashed
RECURSIVE Digest(_)
Digest(data) == IF data = <<>> THEN "" ELSE data[1] \o Digest(Tail(data))

sha256_hexdigest(data) == <<"sha256(" \o Digest(data) \o ")">>

\* pool_dir = f"pages/pool/main/{pkg_name[0]}/{pkg_name}"
PoolDir(pkg_name) == <<"pages/", "pool/main/", pkg_name[1], "/">> \o pkg_name

\* os.path.join(pool_dir, filename)
SavePath(pool_dir, filename) == pool_dir \o <<"/">> \o filename

\* _save_deb.  written is the number of bytes that reached the file: all of
\* them (success), fewer (open() has truncated the file and write failed), or
\* -1 (makedirs or open failed and the file is as it was)
_save_deb(files, pool_dir, filename, data, written) ==
    IF written < 0 THEN files
    ELSE Put(files, SavePath(pool_dir, filename), SubSeq(data, 1, written))

SaveOutcomes(data) == {-1, 0, Len(data)}

RECURSIVE CopyPresent(_, _, _)
CopyPresent(entry, info, fields) ==
    IF fields = <<>> THEN entry
    ELSE CopyPresent(IF Has(info, fields[1])
                     THEN Put(entry, fields[1], Get(info, fields[1]))
                     ELSE entry,
                     info, Tail(fields))

\* base_entry of an archive whose control file has Package and Version
BaseEntry(info, asset_name, data) ==
    LET pkg_name == Get(info, Package)
        e1 == Put(EmptyDict, Package, pkg_name)
        e2 == Put(e1, Version, Get(info, Version))
        e3 == Put(e2, Maintainer, GetOr(info, Maintainer, <<"Unknown">>))
        e4 == Put(e3, Description, GetOr(info, Description, <<>>))
        e5 == Put(e4, Section, GetOr(info, Section, <<"misc">>))
        e6 == Put(e5, Priority, GetOr(info, Priority, <<"optional">>))
        e7 == Put(e6, Filename, <<"pool/main/", pkg_name[1], "/">> \o pkg_name \o <<"/">> \o asset_name)
        e8 == Put(e7, Size, <<ToString(Len(data))>>)
        e9 == Put(e8, SHA256, sha256_hexdigest(data))
    IN  CopyPresent(e9, info, relation_fields)

\* Route if an "all" record were also copied into every bucket at ingestion
RouteEager(by_arch, all, base_entry, arch, src) ==
    IF arch = ALL
    THEN [packages_by_arch |->
              [b \in 1..Len(by_arch) |->
                  [k |-> by_arch[b].k,
                   v |-> Append(by_arch[b].v,
                                [entry |-> Put(base_entry, Architecture, by_arch[b].k), src |-> src])]],
          packages_all |-> Append(all, [entry |-> Put(base_entry, Architecture, ALL), src |-> src])]
    ELSE [packages_by_arch |->
              Put(by_arch, arch,
                  Append(GetOr(by_arch, arch, <<>>),
                         [entry |-> Put(base_entry, Architecture, arch), src |-> src])),
          packages_all |-> all]

\* Route if the buckets shared their list: a concrete record lands in every bucket
RouteShared(by_arch, all, base_entry, arch, src) ==
    IF arch = ALL
    THEN [packages_by_arch |-> by_arch,
          packages_all |-> Append(all, [entry |-> Put(base_entry, Architecture, ALL), src |-> src])]
    ELSE LET el == [entry |-> Put(base_entry, Architecture, arch), src |-> src]
             grown == [b \in 1..Len(by_arch) |->
                          [k |-> by_arch[b].k, v |-> Append(by_arch[b].v, el)]]
         IN  [packages_by_arch |-> IF Has(by_arch, arch) THEN grown ELSE Put(grown, arch, <<el>>),
              packages_all |-> all]

\* the branch on arch: into packages_all, or into the bucket of arch.
\* A list element is the entry and, as history, the position of its asset.
Route(by_arch, all, base_entry, arch, src) ==
    IF arch = ALL
    THEN [packages_by_arch |-> by_arch,
          packages_all |-> Append(all, [entry |-> Put(base_entry, Architecture, ALL), src |-> src])]
    ELSE [packages_by_arch |->
              Put(by_arch, arch,
                  Append(GetOr(by_arch, arch, <<>>),
                         [entry |-> Put(base_entry, Architecture, arch), src |-> src])),
          packages_all |-> all]

\* the except clause if it named ValueError alone
CaughtValueErrorOnly(exc) == exc = "ValueError"

\* `except Exception`: the exceptions of the try block that the loop catches
Caught(exc) == exc \in {"ValueError", "KeyError", "IndexError", "OSError"}

\* The try block for one asset: the exception it ends with ("none" when it
\* ends normally) and the pool and the buckets it leaves.
TryAsset(by_arch, all, files, deb, written, src) ==
    LET ext == extract_deb_control(deb)
        info == ext.control_info
        same == [exc |-> "none", pool |-> files, packages_by_arch |-> by_arch, packages_all |-> all]
    IN
    IF ext.raised THEN [same EXCEPT !.exc = "ValueError"]
    ELSE IF ~Has(info, Package) THEN [same EXCEPT !.exc = "KeyError"]
    ELSE IF Get(info, Package) = <<>> THEN [same EXCEPT !.exc = "IndexError"]
    ELSE
      LET arch == strip(GetOr(info, Architecture, ALL))
          saved == _save_deb(files, PoolDir(Get(info, Package)), deb.name, deb.data, written)
      IN
      IF written # Len(deb.data) THEN [same EXCEPT !.exc = "OSError", !.pool = saved]
      ELSE IF ~Has(info, Version) THEN [same EXCEPT !.exc = "KeyError", !.pool = saved]
      ELSE LET routed == Route(by_arch, all, BaseEntry(info, deb.name, deb.data), arch, src)
           IN  [exc |-> "none", pool |-> saved,
                packages_by_arch |-> routed.packages_by_arch,
                packages_all |-> routed.packages_all]

\* does the try block of this asset reach _save_deb
ReachesSave(deb) ==
    LET ext == extract_deb_control(deb) IN
    ~ext.raised /\ Has(ext.control_info, Package) /\ Get(ext.control_info, Package) # <<>>

---------------------------------------------------------------------------
(* generate_packages_files *)

\* packages_dir of an architecture token
IndexDir(arch) == <<"pages/dists/stable/main/binary-">> \o arch

EmitOutcomes == {"ok", "makedirs", "write", "gzip"}

\* the dicts of a list of bucket elements
Entries(list) == [i \in 1..Len(list) |-> list[i].entry]

\* _emit_packages_file if it returned early on an empty list
EmitUnlessEmpty(idx, packages_dir, packages, outcome) ==
    LET content == PackagesContent(Entries(packages)) IN
    CASE packages = <<>> -> idx
      [] packages # <<>> /\ outcome = "ok" ->
            Put(idx, packages_dir, [packages |-> packages, content |-> content, gz |-> Some(content)])
      [] packages # <<>> /\ outcome = "makedirs" -> idx
      [] packages # <<>> /\ outcome = "write" ->
            Put(idx, packages_dir, [packages |-> packages, content |-> <<>>, gz |-> None])
      [] packages # <<>> /\ outcome = "gzip" ->
            Put(idx, packages_dir, [packages |-> packages, content |-> content, gz |-> None])

\* _emit_packages_file: Packages and Packages.gz under packages_dir.
\* outcome "ok": both written; "makedirs": OSError before Packages is opened;
\* "write": Packages opened (so truncated) and the write failed;
\* "gzip": Packages written and Packages.gz failed.  packages is kept as history.
_emit_packages_file(idx, packages_dir, packages, outcome) ==
    LET content == PackagesContent(Entries(packages)) IN
    CASE outcome = "ok" ->
            Put(idx, packages_dir, [packages |-> packages, content |-> content, gz |-> Some(content)])
      [] outcome = "makedirs" -> idx
      [] outcome = "write" ->
            Put(idx, packages_dir, [packages |-> packages, content |-> <<>>, gz |-> None])
      [] outcome = "gzip" ->
            Put(idx, packages_dir, [packages |-> packages, content |-> content, gz |-> None])

\* combined if the "all" records were put first
CombinedAllFirst(packages, all) == all \o packages

\* combined = list(packages); combined.extend(packages_all)
Combined(packages, all) == packages \o all

\* active_architectures after binary-all has been emitted
ActiveAfterAll(all) == IF all # <<>> THEN <<ALL>> ELSE <<>>

---------------------------------------------------------------------------
(* One run of main() *)

RunIdle ==
    /\ pc = "idle"
    /\ processed = <<>>
    /\ packages_by_arch = EmptyDict
    /\ packages_all = <<>>
    /\ pool = EmptyDict
    /\ index = EmptyDict
    /\ active_architectures = <<>>
    /\ next_arch = 0
    /\ storage_failed = FALSE

ParseIdle ==
    /\ p_pc = "idle"
    /\ p_lines = <<>>
    /\ p_next = 0
    /\ control_info = EmptyDict
    /\ current_field = None

RtIdle ==
    /\ rt_pc = "idle"
    /\ rt_description = <<>>
    /\ rt_content = <<>>
    /\ rt_parsed = EmptyDict

\* main() has made pages/ and is about to call download_deb_packages
Init ==
    /\ pc = "download"
    /\ processed = <<>>
    /\ packages_by_arch = EmptyDict
    /\ packages_all = <<>>
    /\ pool = EmptyDict
    /\ index = EmptyDict
    /\ active_architectures = <<>>
    /\ next_arch = 0
    /\ storage_failed = FALSE
    /\ ParseIdle
    /\ RtIdle

\* one asset of a release: downloaded, then the try block and its except
ProcessAsset(deb, written) ==
    /\ pc = "download"
    /\ Len(processed) < MaxAssets
    /\ LET r == TryAsset(packages_by_arch, packages_all, pool, deb, written, Len(processed) + 1) IN
       /\ pool' = r.pool
       /\ packages_by_arch' = r.packages_by_arch
       /\ packages_all' = r.packages_all
       /\ processed' = Append(processed, [deb |-> deb, exc |-> r.exc, written |-> written])
       /\ storage_failed' = (storage_failed \/ r.exc = "OSError")
       /\ pc' = IF r.exc = "none" \/ Caught(r.exc) THEN "download" ELSE "aborted"
    /\ UNCHANGED <<index, active_architectures, next_arch, parse_vars, rt_vars>>

\* no asset is left: download_deb_packages returns and main() calls generate_packages_files
EndDownload ==
    /\ pc = "download"
    /\ pc' = "emit_all"
    /\ UNCHANGED <<processed, packages_by_arch, packages_all, pool, index,
                   active_architectures, next_arch, storage_failed, parse_vars, rt_vars>>

\* binary-all is emitted whatever packages_all holds
EmitAll(outcome) ==
    /\ pc = "emit_all"
    /\ index' = _emit_packages_file(index, IndexDir(ALL), packages_all, outcome)
    /\ IF outcome = "ok"
       THEN /\ active_architectures' = ActiveAfterAll(packages_all)
            /\ next_arch' = 1
            /\ pc' = "emit_arch"
            /\ UNCHANGED storage_failed
       ELSE /\ pc' = "aborted"
            /\ storage_failed' = TRUE
            /\ UNCHANGED <<active_architectures, next_arch>>
    /\ UNCHANGED <<processed, packages_by_arch, packages_all, pool, parse_vars, rt_vars>>

\* one pass of `for arch, packages in packages_by_arch.items()`
EmitArch(outcome) ==
    /\ pc = "emit_arch"
    /\ next_arch <= Len(packages_by_arch)
    /\ LET arch == packages_by_arch[next_arch].k
           combined == Combined(packages_by_arch[next_arch].v, packages_all)
       IN
       IF combined = <<>> /\ ~Contains(active_architectures, arch)
       THEN /\ next_arch' = next_arch + 1
            /\ UNCHANGED <<pc, index, active_architectures, storage_failed>>
       ELSE /\ index' = _emit_packages_file(index, IndexDir(arch), combined, outcome)
            /\ IF outcome = "ok"
               THEN /\ active_architectures' = Append(active_architectures, arch)
                    /\ next_arch' = next_arch + 1
                    /\ UNCHANGED <<pc, storage_failed>>
               ELSE /\ pc' = "aborted"
                    /\ storage_failed' = TRUE
                    /\ UNCHANGED <<active_architectures, next_arch>>
    /\ UNCHANGED <<processed, packages_by_arch, packages_all, pool, parse_vars, rt_vars>>

\* generate_packages_files returns and main() prints the architectures
Summary ==
    /\ pc = "emit_arch"
    /\ next_arch > Len(packages_by_arch)
    /\ pc' = "done"
    /\ UNCHANGED <<processed, packages_by_arch, packages_all, pool, index,
                   active_architectures, next_arch, storage_failed, parse_vars, rt_vars>>

Next ==
    \/ \E deb \in Debs :
         \E written \in (IF ReachesSave(deb) THEN SaveOutcomes(deb.data) ELSE {Len(deb.data)}) :
           ProcessAsset(deb, written)
    \/ EndDownload
    \/ \E outcome \in EmitOutcomes : EmitAll(outcome)
    \/ \E outcome \in EmitOutcomes : EmitArch(outcome)
    \/ Summary

Spec == Init /\ [][Next]_vars

---------------------------------------------------------------------------
(* The parser alone, one line at a time, on every short control text *)

ParseAlphabet == {"a", COLON, SP, TAB, NL}

Texts(alphabet, n) == UNION {[1..k -> alphabet] : k \in 0..n}

ParseInit ==
    /\ RunIdle
    /\ RtIdle
    /\ p_pc = "parsing"
    /\ \E text \in Texts(ParseAlphabet, MaxTextLen) : p_lines = split(text, NL)
    /\ p_next = 1
    /\ control_info = EmptyDict
    /\ current_field = None

ParseStep ==
    /\ p_pc = "parsing"
    /\ p_next <= Len(p_lines)
    /\ LET st == ParseLine([control_info |-> control_info, current_field |-> current_field],
                           p_lines[p_next])
       IN  /\ control_info' = st.control_info
           /\ current_field' = st.current_field
    /\ p_next' = p_next + 1
    /\ UNCHANGED <<p_pc, p_lines, run_vars, rt_vars>>

ParseReturn ==
    /\ p_pc = "parsing"
    /\ p_next > Len(p_lines)
    /\ p_pc' = "returned"
    /\ UNCHANGED <<p_lines, p_next, control_info, current_field, run_vars, rt_vars>>

ParseNext == ParseStep \/ ParseReturn

SpecParse == ParseInit /\ [][ParseNext]_vars

---------------------------------------------------------------------------
(* One record written by _emit_packages_file and read back by the parser *)

\* the symbols of a Description: two words and the newline
DescAlphabet == {"a", "b", NL}

\* a record as download_deb_packages builds it, with the given Description
RtRecord(description) ==
    Put(BaseEntry(Put(Put(Put(EmptyDict, Package, <<"p", "kg">>), Version, <<"1">>),
                      Description, description),
                  <<"pkg.deb">>, <<"x">>),
        Architecture, ALL)

RtInit ==
    /\ RunIdle
    /\ ParseIdle
    /\ rt_pc = "start"
    /\ rt_description \in Texts(DescAlphabet, MaxDescLen)
    /\ rt_content = <<>>
    /\ rt_parsed = EmptyDict

RtEmit ==
    /\ rt_pc = "start"
    /\ rt_content' = PackagesContent(<<RtRecord(rt_description)>>)
    /\ rt_pc' = "emitted"
    /\ UNCHANGED <<rt_description, rt_parsed, run_vars, parse_vars>>

RtParse ==
    /\ rt_pc = "emitted"
    /\ rt_parsed' = ParseControl(rt_content)
    /\ rt_pc' = "parsed"
    /\ UNCHANGED <<rt_description, rt_content, run_vars, parse_vars>>

RtNext == RtEmit \/ RtParse

SpecRoundTrip == RtInit /\ [][RtNext]_vars

---------------------------------------------------------------------------
(* Vocabulary of the properties *)

\* the control data of each archive, and the architecture token it reports
InfoOfDeb == [deb \in Debs |-> extract_deb_control(deb).control_info]
ArchOfDeb == [deb \in Debs |-> strip(GetOr(InfoOfDeb[deb], Architecture, ALL))]
InfoOf(deb) == InfoOfDeb[deb]
ArchOf(deb) == ArchOfDeb[deb]

\* how many elements of a bucket or of an emitted list come from asset number k
Count(list, k) == Cardinality({i \in 1..Len(list) : list[i].src = k})

\* the assets that ended in a bucket
Ingested == {k \in 1..Len(processed) : processed[k].exc = "none"}
IngestedAll == {k \in Ingested : ArchOf(processed[k].deb) = ALL}
IngestedConcrete == {k \in Ingested : ArchOf(processed[k].deb) # ALL}

\* an index both of whose files were written
Emitted(i) == index[i].v.gz # None

\* the values of the lines `field: value` of a Packages text, top to bottom
ValuesOf(content, field) ==
    LET ls == SelectSeq(split(content, NL),
                        LAMBDA l : Len(l) >= 3 /\ l[1] = field[1] /\ l[2] = COLON)
    IN  [i \in 1..Len(ls) |-> SubSeq(ls[i], 4, Len(ls[i]))]

\* the text of an emitted index names, stanza by stanza, the records of its list
TextMatchesList(i) ==
    /\ ValuesOf(index[i].v.content, Filename)
         = [j \in 1..Len(index[i].v.packages) |-> Get(index[i].v.packages[j].entry, Filename)]
    /\ ValuesOf(index[i].v.content, Architecture)
         = [j \in 1..Len(index[i].v.packages) |-> Get(index[i].v.packages[j].entry, Architecture)]

---------------------------------------------------------------------------
\* C1: a record whose Architecture is "all" is in packages_all exactly once and
\* in no concrete bucket; once generate_packages_files has returned, the
\* binary-all index and the index of every concrete bucket exist and hold it
\* exactly once, in their list and in their text.
C1_AllRecordExactlyOnce ==
    \A k \in IngestedAll :
        /\ Count(packages_all, k) = 1
        /\ \A b \in 1..Len(packages_by_arch) : Count(packages_by_arch[b].v, k) = 0
        /\ pc = "done" =>
             /\ Has(index, IndexDir(ALL))
             /\ \A b \in 1..Len(packages_by_arch) : Has(index, IndexDir(packages_by_arch[b].k))
             /\ \A i \in 1..Len(index) :
                    /\ Count(index[i].v.packages, k) = 1
                    /\ Emitted(i)
                    /\ TextMatchesList(i)

\* a finished run with two "all" records and a concrete index
C1_Witness ==
    /\ pc = "done"
    /\ Cardinality(IngestedAll) >= 2
    /\ Len(packages_by_arch) >= 1

---------------------------------------------------------------------------
\* C2: a record whose control Architecture is a concrete token A is exactly
\* once in bucket A, which exists, and nowhere else: not in packages_all, not
\* in another bucket, not in any index but A's; the buckets are exactly the
\* concrete tokens seen, in the order of their first record.
C2_ConcreteRecordOnlyInItsBucket ==
    /\ \A k \in IngestedConcrete :
         LET A == ArchOf(processed[k].deb) IN
         /\ Count(packages_all, k) = 0
         /\ Has(packages_by_arch, A)
         /\ \A b \in 1..Len(packages_by_arch) :
                Count(packages_by_arch[b].v, k) = (IF packages_by_arch[b].k = A THEN 1 ELSE 0)
         /\ \A i \in 1..Len(index) :
                /\ index[i].k # IndexDir(A) => Count(index[i].v.packages, k) = 0
                /\ index[i].k = IndexDir(A) => Count(index[i].v.packages, k) = 1
                /\ Emitted(i) => TextMatchesList(i)
    /\ \A b \in 1..Len(packages_by_arch) :
         /\ packages_by_arch[b].v # <<>>
         /\ packages_by_arch[b].k = ArchOf(processed[packages_by_arch[b].v[1].src].deb)
         /\ \A c \in 1..(b - 1) : packages_by_arch[c].v[1].src < packages_by_arch[b].v[1].src

\* a finished run with records of two concrete architectures and an "all" record
C2_Witness ==
    /\ pc = "done"
    /\ Len(packages_by_arch) >= 2
    /\ packages_all # <<>>

---------------------------------------------------------------------------
\* what C3 calls an archive that fails extraction or lacks Package or Version
LacksRequiredDebs ==
    {deb \in Debs : \/ ~deb.extractable
                    \/ ~Has(InfoOf(deb), Package)
                    \/ ~Has(InfoOf(deb), Version)}
LacksRequired(deb) == deb \in LacksRequiredDebs

\* ... and the archives the script skips as well: an empty Package value
SkippedDebs == LacksRequiredDebs \cup {deb \in Debs \ LacksRequiredDebs : Get(InfoOf(deb), Package) = <<>>}
Skipped(deb) == deb \in SkippedDebs

\* how many records asset number k has in all the buckets together
Records(k) ==
    Count(packages_all, k)
      + Cardinality({b \in 1..Len(packages_by_arch) : Count(packages_by_arch[b].v, k) > 0})

\* C3 as stated, for the runs in which no write failed: an archive that fails
\* extraction or lacks Package or Version has no record, every other archive
\* has its record, and the run is not ended.
C3_Original ==
    ~storage_failed =>
        /\ \A k \in 1..Len(processed) :
               Records(k) = (IF LacksRequired(processed[k].deb) THEN 0 ELSE 1)
        /\ pc # "aborted"

\* C3 amended: an archive that fails extraction, lacks Package or Version, or
\* has an empty Package value has no record in any bucket; every other archive
\* whose pool write succeeded has exactly one record; no archive ends the run:
\* a run ends early only in a failed index write.
C3_FailuresIsolated ==
    /\ \A k \in 1..Len(processed) :
         /\ Skipped(processed[k].deb) => Records(k) = 0
         /\ (~Skipped(processed[k].deb) /\ processed[k].exc # "OSError") => Records(k) = 1
         /\ processed[k].exc = "OSError" => Records(k) = 0
    /\ ~storage_failed => pc # "aborted"
    /\ pc = "done" => /\ Has(index, IndexDir(ALL))
                      /\ \A i \in 1..Len(index) : Emitted(i)

\* a finished run: a skipped archive first, then an archive that got its record
C3_Witness ==
    /\ pc = "done"
    /\ \E k \in 1..Len(processed) :
         /\ Skipped(processed[k].deb)
         /\ \E m \in Ingested : m > k

---------------------------------------------------------------------------
\* C4: a failed write to the pool or to an index ends the run: from the
\* failure on the run is aborted, so it handles no further asset and prints
\* no summary.
C4_StorageFailureAborts == storage_failed => pc = "aborted"

---------------------------------------------------------------------------
\* C5: the Description the parser reads from the emitted text of a record is
\* the Description of the record.
C5_DescriptionRoundTrip ==
    rt_pc = "parsed" =>
        /\ Has(rt_parsed, Description)
        /\ Get(rt_parsed, Description) = rt_description

---------------------------------------------------------------------------
\* C6: at the end of a run (here: of a run in which no write failed), every
\* record of every bucket has Filename pool/main/<first character of
\* Package>/<Package>/<asset name>, and the pool holds at that path the bytes
\* of the record's archive.
C6_PoolHoldsEveryIngestedArchive ==
    (pc = "done" /\ ~storage_failed) =>
        \A k \in Ingested :
            LET deb == processed[k].deb
                pkg == Get(InfoOf(deb), Package)
                path == <<"pool/main/", pkg[1], "/">> \o pkg \o <<"/">> \o deb.name
            IN  /\ \A e \in {packages_all[n] : n \in 1..Len(packages_all)}
                         \cup UNION {{packages_by_arch[b].v[n] : n \in 1..Len(packages_by_arch[b].v)}
                                     : b \in 1..Len(packages_by_arch)} :
                       e.src = k => Get(e.entry, Filename) = path
                /\ Has(pool, <<"pages/">> \o path)
                /\ Get(pool, <<"pages/">> \o path) = deb.data

---------------------------------------------------------------------------
\* C7: once binary-all has been written its index exists, empty when
\* packages_all is empty; an index of a concrete architecture holds at least
\* one record; at the end of a run the concrete indexes are those of the
\* buckets, so a run without any record leaves the empty binary-all alone.
C7_AllAlwaysEmitted ==
    /\ pc \in {"emit_arch", "done"} =>
         /\ Has(index, IndexDir(ALL))
         /\ Get(index, IndexDir(ALL)).packages = packages_all
         /\ Get(index, IndexDir(ALL)).gz = Some(Get(index, IndexDir(ALL)).content)
         /\ (packages_all = <<>>) = (Get(index, IndexDir(ALL)).content = <<>>)
    /\ \A i \in 1..Len(index) :
         index[i].k # IndexDir(ALL) =>
            /\ index[i].v.packages # <<>>
            /\ Emitted(i) => index[i].v.content # <<>>
            /\ \E b \in 1..Len(packages_by_arch) : index[i].k = IndexDir(packages_by_arch[b].k)
    /\ pc = "done" =>
         /\ \A b \in 1..Len(packages_by_arch) :
                Has(index, IndexDir(packages_by_arch[b].k))
                    = (packages_by_arch[b].v # <<>> \/ packages_all # <<>>)
         /\ Len(index) = 1 + Len(packages_by_arch)
         /\ Ingested = {} => (Len(index) = 1 /\ index[1].k = IndexDir(ALL) /\ index[1].v.content = <<>>)

\* a finished run that left an empty binary-all and the index of a concrete architecture
C7_Witness ==
    /\ pc = "done"
    /\ packages_all = <<>>
    /\ Has(index, IndexDir(ALL))
    /\ Len(index) >= 2

---------------------------------------------------------------------------
\* C8: in the index of a concrete architecture no "all" record comes before a
\* native record, the records of each group are in the order of their assets,
\* and the text names the records in the order of the list.
C8_NativeBeforeAll ==
    \A i \in 1..Len(index) :
        index[i].k # IndexDir(ALL) =>
           LET list == index[i].v.packages
               FromAll(n) == ArchOf(processed[list[n].src].deb) = ALL
           IN  /\ \A p \in 1..Len(list) : \A q \in (p + 1)..Len(list) :
                      /\ ~(FromAll(p) /\ ~FromAll(q))
                      /\ (FromAll(p) = FromAll(q)) => list[p].src < list[q].src
               /\ Emitted(i) => TextMatchesList(i)

\* a finished run with a concrete index of two native records followed by an "all" record
C8_Witness ==
    /\ pc = "done"
    /\ \E i \in 1..Len(index) :
         /\ index[i].k # IndexDir(ALL)
         /\ Len(index[i].v.packages) >= 3
         /\ ArchOf(processed[index[i].v.packages[2].src].deb) # ALL
         /\ ArchOf(processed[index[i].v.packages[3].src].deb) = ALL

---------------------------------------------------------------------------
\* a line the parser takes for a continuation
IsContinuation(raw) == StartsWithBlank(rstrip(raw))

\* C9: when the parser handles a continuation line after a field line, the
\* value of the field opened last grows by a newline and the line and nothing
\* else changes; before any field line the mapping stays as it is.
C9_ContinuationAppended ==
    [][(p_pc = "parsing" /\ p_next <= Len(p_lines) /\ IsContinuation(p_lines[p_next])) =>
         IF current_field # None
         THEN control_info' = Put(control_info, current_field[1],
                                  Get(control_info, current_field[1])
                                      \o <<NL>> \o rstrip(p_lines[p_next]))
         ELSE control_info' = control_info]_vars

---------------------------------------------------------------------------
\* the order C10 gives
C10_Order == <<"Package", "Version", "Architecture", "Maintainer", "Filename", "Size",
               "SHA256", "Section", "Priority", "Depends", "Recommends", "Suggests",
               "Conflicts", "Provides", "Replaces", "Description">>

\* the field names of the lines of a stanza that open a field
HeaderNames(lines) ==
    LET hs == SelectSeq(lines, LAMBDA l : ~StartsWithBlank(l))
    IN  [n \in 1..Len(hs) |-> IF hs[n] = <<>> THEN "" ELSE hs[n][1]]

\* C10: the text of an emitted index is empty for an empty list; otherwise it
\* ends in exactly one newline, its stanzas, cut at the blank lines, are as
\* many as the records, and the fields of each stanza are the fields of its
\* record in the order of C10_Order, whatever the order of the dict.
C10_FixedFieldOrder ==
    \A i \in 1..Len(index) :
        Emitted(i) =>
           LET content == index[i].v.content
               recs == Entries(index[i].v.packages)
           IN  IF recs = <<>> THEN content = <<>>
               ELSE /\ Len(content) >= 2
                    /\ content[Len(content)] = NL
                    /\ content[Len(content) - 1] # NL
                    /\ LET stanzas == split(split(SubSeq(content, 1, Len(content) - 1), NL), <<>>)
                       IN  /\ Len(stanzas) = Len(recs)
                           /\ \A j \in 1..Len(stanzas) :
                                  /\ HeaderNames(stanzas[j])
                                       = SelectSeq(C10_Order, LAMBDA f : Has(recs[j], <<f>>))
                                  /\ \A n \in 1..Len(stanzas[j]) :
                                         ~StartsWithBlank(stanzas[j][n]) =>
                                            /\ Len(stanzas[j][n]) >= 3
                                            /\ SubSeq(stanzas[j][n], 2, 3) = <<COLON, SP>>

\* a finished run with an index of two records, one with Depends and one
\* without, whose dicts are not in the order of C10_Order
C10_Witness ==
    /\ pc = "done"
    /\ \E i \in 1..Len(index) :
         /\ Len(index[i].v.packages) >= 2
         /\ \E j, m \in 1..Len(index[i].v.packages) :
              /\ Has(index[i].v.packages[j].entry, Depends)
              /\ ~Has(index[i].v.packages[m].entry, Depends)
              /\ Keys(index[i].v.packages[j].entry)
                   # SelectSeq(required_fields \o optional_fields,
                               LAMBDA f : Has(index[i].v.packages[j].entry, f))

---------------------------------------------------------------------------
\* the file of the pool that holds the archive of asset number k
PoolFileOf(k) ==
    LET deb == processed[k].deb
        pkg == Get(InfoOf(deb), Package)
    IN  [k |-> <<"pages/", "pool/main/", pkg[1], "/">> \o pkg \o <<"/">> \o deb.name,
         v |-> deb.data]

\* C11: at the end of a run (here: of a run in which no write failed), every
\* file of the pool is the archive of an asset that has a record in a bucket,
\* so an asset that was skipped has left no file.
C11_PoolFilesHaveRecords ==
    (pc = "done" /\ ~storage_failed) =>
        \A f \in 1..Len(pool) :
            \E k \in Ingested : Records(k) = 1 /\ pool[f] = PoolFileOf(k)

====
